---- MODULE Spec2Model ----
(***************************************************************************)
(* A model of yogic (src/src/yogic/__init__.py): goal combinators over the *)
(* triple-barrelled continuation monad, the Subst chain map, unification   *)
(* and the trampolined driver resolve().                                   *)
(*                                                                         *)
(* Closures are represented by records that hold what the closure          *)
(* captures.  A Goal value is a record tagged by the combinator that built *)
(* it (op); applying it to a substitution (ApplyGoal) gives a Step record  *)
(* (s); continuations are records (k); the thunk that tailcall() returns   *)
(* is a record (fn).  Terms are records tagged "var", "atom", "list" and   *)
(* "tuple"; atoms are written as strings ("1" stands for the atom 1) and   *)
(* are values that cannot be unpacked into two items.                      *)
(***************************************************************************)
EXTENDS Integers, Sequences, FiniteSets, TLC

VARIABLES
    scen,       \* the host program: [kind, goals], one resolve() loop per goal
    cur,        \* index of the resolve() generator the host is advancing
    pc,         \* per generator: "created", "running", "suspended", "closed", "done", "raised", "hung"
    result,     \* per generator: the local variable `result` of resolve()
    out,        \* per generator: the substitutions whose proxy was yielded
    delivered,  \* per generator: the substitutions that `success` returned to the driver
    cutlog,     \* per generator: the substitutions at which a cut step ran
    calls       \* per generator: the calls of functions wrapped by predicate

vars == <<scen, cur, pc, result, out, delivered, cutlog, calls>>

(***************************************************************************)
(* Terms                                                                   *)
(***************************************************************************)
Variable(id) == [tag |-> "var", id |-> id]
Atom(val) == [tag |-> "atom", val |-> val]
List(elems) == [tag |-> "list", elems |-> elems]
Tuple(elems) == [tag |-> "tuple", elems |-> elems]

IsVariable(obj) == obj.tag = "var"
IsSequence(obj) == obj.tag \in {"list", "tuple"}

\* what deref/smooth "return" when the call never returns
Diverges == [tag |-> "diverges"]

(***************************************************************************)
(* Subst(ChainMap): maps[1] is the newest layer                            *)
(***************************************************************************)
EmptyLayer == [v \in {} |-> v]
Subst == <<EmptyLayer>>
\* a new_child that keeps only the new layer
new_child_alone(subst, var, val) == <<(var :> val)>>
new_child(subst, var, val) == <<(var :> val)>> \o subst

Contains(subst, obj) == \E i \in 1..Len(subst) : obj \in DOMAIN subst[i]
GetItem(subst, obj) ==
    LET i == CHOOSE i \in 1..Len(subst) :
                /\ obj \in DOMAIN subst[i]
                /\ \A j \in 1..(i - 1) : obj \notin DOMAIN subst[j]
    IN  subst[i][obj]
\* ChainMap.__bool__: any(self.maps)
Truthy(subst) == \E i \in 1..Len(subst) : DOMAIN subst[i] # {}

RECURSIVE DerefLoop(_, _, _)
DerefLoop(subst, obj, seen) ==
    IF IsVariable(obj) /\ Contains(subst, obj)
    THEN IF obj \in seen
         THEN Diverges    \* the while loop revisits a variable: it never ends
         ELSE DerefLoop(subst, GetItem(subst, obj), seen \cup {obj})
    ELSE obj

deref(subst, obj) == DerefLoop(subst, obj, {})

RECURSIVE Depth(_)
Depth(obj) ==
    IF IsSequence(obj)
    THEN LET RECURSIVE Deepest(_)
             Deepest(i) == IF i = 0 THEN 0
                           ELSE LET d == Depth(obj.elems[i])
                                    m == Deepest(i - 1)
                                IN  IF d > m THEN d ELSE m
         IN  1 + Deepest(Len(obj.elems))
    ELSE 0

RECURSIVE BoundDepth(_)
BoundDepth(subst) ==
    IF subst = <<>> THEN 0
    ELSE LET layer == Head(subst)
             here == IF DOMAIN layer = {} THEN 0
                     ELSE Depth(layer[CHOOSE v \in DOMAIN layer : TRUE])
         IN  here + BoundDepth(Tail(subst))

\* smooth nests at most Depth(obj) + BoundDepth(subst) calls unless a term
\* contains itself, and then the recursion never ends
RECURSIVE SmoothRec(_, _, _)
SmoothRec(subst, obj, fuel) ==
    LET thing == deref(subst, obj) IN
    IF thing = Diverges THEN Diverges
    ELSE IF IsSequence(thing)
    THEN IF fuel = 0 THEN Diverges
         ELSE LET each == [i \in 1..Len(thing.elems) |->
                              SmoothRec(subst, thing.elems[i], fuel - 1)]
              IN  IF \E i \in 1..Len(each) : each[i] = Diverges
                  THEN Diverges
                  ELSE [tag |-> thing.tag, elems |-> each]
    ELSE thing

\* smooth that rebuilds the sequence it is given as a list
smooth_as_list(subst, obj) ==
    LET thing == SmoothRec(subst, obj, Depth(obj) + BoundDepth(subst))
    IN  IF IsSequence(thing) THEN List(thing.elems) ELSE thing

smooth(subst, obj) == SmoothRec(subst, obj, Depth(obj) + BoundDepth(subst))

\* Subst.proxy.__getitem__
proxy(subst, variable) == smooth(subst, variable)

(***************************************************************************)
(* Goal values                                                             *)
(***************************************************************************)
unit_goal == [op |-> "unit"]
cut_goal == [op |-> "cut"]
fail_goal == [op |-> "fail"]
\* then with its arguments taken in the wrong order
then_swapped(goal1, goal2) == [op |-> "then", goal1 |-> goal2, goal2 |-> goal1]
then(goal1, goal2) == [op |-> "then", goal1 |-> goal1, goal2 |-> goal2]
choice(goal1, goal2) == [op |-> "choice", goal1 |-> goal1, goal2 |-> goal2]

RECURSIVE ReduceThen(_, _)
ReduceThen(goals, acc) ==
    IF goals = <<>> THEN acc ELSE ReduceThen(Tail(goals), then(acc, Head(goals)))

RECURSIVE ReduceChoice(_, _)
ReduceChoice(goals, acc) ==
    IF goals = <<>> THEN acc ELSE ReduceChoice(Tail(goals), choice(acc, Head(goals)))

seq_from_iterable(goals) == ReduceThen(goals, unit_goal)
seq(goals) == seq_from_iterable(goals)

\* an amb folded from unit, the identity of seq, instead of fail
amb_from_unit(goals) == [op |-> "amb", joined |-> ReduceChoice(goals, unit_goal)]
amb_from_iterable(goals) == [op |-> "amb", joined |-> ReduceChoice(goals, fail_goal)]
amb(goals) == amb_from_iterable(goals)

\* negation that forgets to commit
no_without_cut(goal) == amb(<<seq(<<goal, fail_goal>>), unit_goal>>)
\* negation that creates no choice point of its own
no_by_choice(goal) == choice(seq(<<goal, cut_goal, fail_goal>>), unit_goal)
no(goal) == amb(<<seq(<<goal, cut_goal, fail_goal>>), unit_goal>>)

\* unify(*pairs): each item of pairs is a term that will be unpacked into two
unify(pairs) == [op |-> "unify", pairs |-> pairs]
\* lambda subst: unit(subst.new_child({var: val}))
bind_goal(var, val) == [op |-> "new_child", var |-> var, val |-> val]

\* compatibility by length alone
compatible_by_length(this, that) == Len(this.elems) = Len(that.elems)
compatible(this, that) == this.tag = that.tag /\ Len(this.elems) = Len(that.elems)

\* _unify with the two variable cases in the other order
unify_deref_that_first(this, that) ==
    IF this = that THEN unit_goal
    ELSE IF IsSequence(this) /\ IsSequence(that) /\ compatible(this, that)
    THEN seq_from_iterable([i \in 1..Len(this.elems) |->
                                unify(<<this.elems[i], that.elems[i]>>)])
    ELSE IF IsVariable(that) THEN bind_goal(that, this)
    ELSE IF IsVariable(this) THEN bind_goal(this, that)
    ELSE fail_goal

\* _unify(this, that): the goal for an already dereferenced pair
unify_deref(this, that) ==
    IF this = that THEN unit_goal
    ELSE IF IsSequence(this) /\ IsSequence(that) /\ compatible(this, that)
    THEN seq_from_iterable([i \in 1..Len(this.elems) |->
                                unify(<<this.elems[i], that.elems[i]>>)])
    ELSE IF IsVariable(this) THEN bind_goal(this, that)
    ELSE IF IsVariable(that) THEN bind_goal(that, this)
    ELSE fail_goal

\* `for this, that in pairs`: a pair must be an iterable of exactly two items
Unpackable(pair) == IsSequence(pair) /\ Len(pair.elems) = 2

(***************************************************************************)
(* predicate(func)(args...): the goal keeps func and args; func is called  *)
(* when the goal is applied.  env is what func refers to besides its       *)
(* arguments, depth counts the calls of func that led to this one.         *)
(***************************************************************************)
\* the value of an expression whose evaluation raises an exception
raise_goal == [op |-> "raise"]

\* the longest chain of nested calls of a function
MaxDepth == 6

RECURSIVE Body(_)
\* a predicate that calls func when the goal is built
pred_eager(name, env, args, depth) ==
    Body([op |-> "pred", name |-> name, env |-> env, args |-> args, depth |-> depth])
\* a predicate whose goal is a choice point of its own
pred_barrier(name, env, args, depth) ==
    [op |-> "amb",
     joined |-> [op |-> "pred", name |-> name, env |-> env, args |-> args,
                 depth |-> depth]]
pred(name, env, args, depth) ==
    [op |-> "pred", name |-> name, env |-> env, args |-> args, depth |-> depth]

\* examples/example.py: child as shipped passes two lists to unify, each
\* taken as a pair; "list" is one pair of lists, "pairs" a pair per argument
fact(a, b, p, q, how) ==
    CASE how = "shipped" -> unify(<<List(<<a, b>>), List(<<Atom(p), Atom(q)>>)>>)
      [] how = "list" -> unify(<<Tuple(<<List(<<a, b>>), List(<<Atom(p), Atom(q)>>)>>)>>)
      [] how = "pairs" -> unify(<<Tuple(<<a, Atom(p)>>), Tuple(<<b, Atom(q)>>)>>)
child(a, b, how) == pred("child", how, <<a, b>>, 0)
descendant(a, c, how, depth) == pred("descendant", how, <<a, c>>, depth)
\* a function that raises when it is called
boom == pred("boom", "", <<>>, 0)
\* a function that returns the goal g
constant(g) == pred("constant", g, <<>>, 0)

\* a function that counts n down by returning the call for n - 1
direct(n) == pred("direct", n, <<>>, 0)
\* a function that counts n down at the end of a conjunction
counted(n) == pred("counted", n, <<>>, 0)

\* `b = var()` in the call at this depth: the count has passed every
\* variable made before
FreshBase == 100
Fresh(depth) == Variable(FreshBase + depth)

\* the goal that func(args...) returns
Body(p) ==
    CASE p.name = "child" ->
            amb(<<fact(p.args[1], p.args[2], "archimedes", "bob", p.env),
                  fact(p.args[1], p.args[2], "fluffy", "fifi", p.env),
                  fact(p.args[1], p.args[2], "daisy", "fluffy", p.env),
                  fact(p.args[1], p.args[2], "athene", "zeus", p.env)>>)
      [] p.name = "descendant" ->
            IF p.depth >= MaxDepth THEN raise_goal
            ELSE amb(<<child(p.args[1], p.args[2], p.env),
                       seq(<<child(p.args[1], Fresh(p.depth), p.env),
                             descendant(Fresh(p.depth), p.args[2], p.env,
                                        p.depth + 1)>>)>>)
      [] p.name = "boom" -> raise_goal
      [] p.name = "constant" -> p.env
      [] p.name = "direct" ->
            IF p.env = 0 THEN unit_goal ELSE direct(p.env - 1)
      [] p.name = "counted" ->
            IF p.env = 0 THEN unit_goal
            ELSE seq(<<unit_goal, counted(p.env - 1)>>)

\* whether building the goal raised: an argument of a combinator did
RECURSIVE Builds(_)
Builds(g) ==
    CASE g.op = "raise" -> FALSE
      [] g.op = "then" -> Builds(g.goal1) /\ Builds(g.goal2)
      [] g.op = "choice" -> Builds(g.goal1) /\ Builds(g.goal2)
      [] g.op = "amb" -> Builds(g.joined)
      [] OTHER -> TRUE

(***************************************************************************)
(* Steps: goal(subst)                                                      *)
(***************************************************************************)
Raised == [s |-> "raise"]
Hung == [s |-> "hang"]
Abnormal(step) == step.s \in {"raise", "hang"}

unit(subst) == [s |-> "unit", subst |-> subst]
cut(subst) == [s |-> "cut", subst |-> subst]
fail(subst) == [s |-> "fail"]
bind(step, goal) ==
    IF Abnormal(step) THEN step ELSE [s |-> "mb", step |-> step, goal |-> goal]

\* the generator of unify() evaluated by reduce(): the goals of the pairs in
\* order, or the first exception / endless deref met on the way
RECURSIVE UnifyGoals(_, _, _)
UnifyGoals(pairs, subst, acc) ==
    IF pairs = <<>> THEN [ok |-> "ok", goals |-> acc]
    ELSE LET pair == Head(pairs) IN
         IF ~Unpackable(pair) THEN [ok |-> "raise", goals |-> <<>>]
         ELSE LET this == deref(subst, pair.elems[1])
                  that == deref(subst, pair.elems[2])
              IN  IF this = Diverges \/ that = Diverges
                  THEN [ok |-> "hang", goals |-> <<>>]
                  ELSE UnifyGoals(Tail(pairs), subst,
                                  Append(acc, unify_deref(this, that)))

RECURSIVE ApplyGoal(_, _)
ApplyGoal(goal, subst) ==
    CASE goal.op = "unit" -> unit(subst)
      [] goal.op = "cut" -> cut(subst)
      [] goal.op = "fail" -> fail(subst)
      [] goal.op = "then" -> bind(ApplyGoal(goal.goal1, subst), goal.goal2)
      [] goal.op = "choice" ->
            [s |-> "choice", goal1 |-> goal.goal1, goal2 |-> goal.goal2, subst |-> subst]
      [] goal.op = "amb" -> [s |-> "amb", joined |-> goal.joined, subst |-> subst]
      [] goal.op = "new_child" -> unit(new_child(subst, goal.var, goal.val))
      [] goal.op = "unify" ->
            LET gs == UnifyGoals(goal.pairs, subst, <<>>) IN
            IF gs.ok = "raise" THEN Raised
            ELSE IF gs.ok = "hang" THEN Hung
            ELSE ApplyGoal(seq_from_iterable(gs.goals), subst)
      [] goal.op = "pred" ->
            IF Builds(Body(goal)) THEN ApplyGoal(Body(goal), subst) ELSE Raised
      [] goal.op = "raise" -> Raised

\* the calls of wrapped functions that goal(subst) makes, in order
RECURSIVE CallsOf(_, _)
CallsOf(goal, subst) ==
    CASE goal.op = "then" -> CallsOf(goal.goal1, subst)
      [] goal.op = "pred" ->
            <<[name |-> goal.name, args |-> goal.args, subst |-> subst]>>
                \o (IF Builds(Body(goal)) THEN CallsOf(Body(goal), subst) ELSE <<>>)
      [] OTHER -> <<>>

(***************************************************************************)
(* Continuations, thunks and Results                                       *)
(***************************************************************************)
success == [k |-> "success"]
failure == [k |-> "failure"]
on_success(goal, succeed, escape) ==
    [k |-> "on_success", goal |-> goal, succeed |-> succeed, escape |-> escape]
on_failure(goal2, subst, succeed, backtrack, escape) ==
    [k |-> "on_failure", goal2 |-> goal2, subst |-> subst,
     succeed |-> succeed, backtrack |-> backtrack, escape |-> escape]

\* tailcall(f)(*args) returns ((), lambda: f(*args))
tailcall(thunk) == [r |-> "bounce", next |-> thunk]
None == [r |-> "none"]

\* step(succeed, backtrack, escape) where step is the value of goal(subst)
CallStep(step, succeed, backtrack, escape) ==
    IF Abnormal(step) THEN [r |-> step.s]
    ELSE tailcall([fn |-> "step", step |-> step, succeed |-> succeed,
                   backtrack |-> backtrack, escape |-> escape])
CallEmit(emit, subst, backtrack) ==
    tailcall([fn |-> "emit", emit |-> emit, subst |-> subst, backtrack |-> backtrack])
CallNext(next) == tailcall([fn |-> "next", next |-> next])

\* the bodies of the decorated functions
\* a unit that pushes a layer of its own onto the substitution
unit_step_new_child(subst, succeed, backtrack, escape) ==
    CallEmit(succeed, <<EmptyLayer>> \o subst, backtrack)
unit_step(subst, succeed, backtrack, escape) == CallEmit(succeed, subst, backtrack)
\* a cut that keeps the failure continuation, as unit does
cut_step_backtracks(subst, succeed, backtrack, escape) ==
    CallEmit(succeed, subst, backtrack)
\* a cut that takes the escape continuation itself
cut_step_escapes(subst, succeed, backtrack, escape) == CallNext(escape)
cut_step(subst, succeed, backtrack, escape) == CallEmit(succeed, subst, escape)
\* a fail that takes the escape continuation
fail_step_escapes(succeed, backtrack, escape) == CallNext(escape)
fail_step(succeed, backtrack, escape) == CallNext(backtrack)
\* a bind whose second goal escapes to the bind's own failure continuation
mb_barrier(step, goal, succeed, backtrack, escape) ==
    CallStep(step, on_success(goal, succeed, backtrack), backtrack, escape)
mb(step, goal, succeed, backtrack, escape) ==
    CallStep(step, on_success(goal, succeed, escape), backtrack, escape)
\* a choice that runs its second goal first
choice_step_swapped(goal1, goal2, subst, succeed, backtrack, escape) ==
    CallStep(ApplyGoal(goal2, subst), succeed,
             on_failure(goal1, subst, succeed, backtrack, escape), escape)
choice_step(goal1, goal2, subst, succeed, backtrack, escape) ==
    CallStep(ApplyGoal(goal1, subst), succeed,
             on_failure(goal2, subst, succeed, backtrack, escape), escape)
\* an amb that hands its own escape continuation down
amb_step_keeps_escape(joined, subst, succeed, backtrack, escape) ==
    CallStep(ApplyGoal(joined, subst), succeed, backtrack, escape)
\* an amb that takes the escape continuation once its alternatives are exhausted
amb_step_escapes(joined, subst, succeed, backtrack, escape) ==
    CallStep(ApplyGoal(joined, subst), succeed, escape, escape)
amb_step(joined, subst, succeed, backtrack, escape) ==
    CallStep(ApplyGoal(joined, subst), succeed, backtrack, backtrack)
\* a bind that hands its second goal the resumption of the first as escape
on_success_body_own_escape(goal, succeed, escape, subst, backtrack) ==
    CallStep(ApplyGoal(goal, subst), succeed, backtrack, backtrack)
on_success_body(goal, succeed, escape, subst, backtrack) ==
    CallStep(ApplyGoal(goal, subst), succeed, backtrack, escape)
\* a second alternative that starts from a new substitution
on_failure_body_forgets(goal2, subst, succeed, backtrack, escape) ==
    CallStep(ApplyGoal(goal2, Subst), succeed, backtrack, escape)
on_failure_body(goal2, subst, succeed, backtrack, escape) ==
    CallStep(ApplyGoal(goal2, subst), succeed, backtrack, escape)
success_body(subst, backtrack) == [r |-> "solution", subst |-> subst, next |-> backtrack]
failure_body == None

(***************************************************************************)
(* yogic/backtracking.py: the same combinators without the trampoline.     *)
(* Continuations return the solutions that follow; a goal value is the     *)
(* record of the combinator that built it, as above.                       *)
(***************************************************************************)
\* _seq_from_iterable(mfs); foldr is called without its third argument
bt_seq_from_iterable(mfs) ==
    CASE Len(mfs) = 0 -> unit_goal
      [] Len(mfs) = 1 -> mfs[1]
      [] Len(mfs) = 2 -> then(mfs[1], mfs[2])
      [] OTHER -> raise_goal
bt_seq(mfs) == bt_seq_from_iterable(mfs)

\* _amb_from_iterable(mfs)
bt_amb_from_iterable(mfs) ==
    CASE Len(mfs) = 0 -> [op |-> "amb", joined |-> fail_goal]
      [] Len(mfs) = 1 -> [op |-> "amb", joined |-> mfs[1]]
      [] Len(mfs) = 2 -> [op |-> "amb", joined |-> choice(mfs[1], mfs[2])]
      [] OTHER -> raise_goal
bt_amb(mfs) == bt_amb_from_iterable(mfs)

bt_no(mf) == bt_amb(<<bt_seq(<<mf, cut_goal, fail_goal>>), unit_goal>>)

\* mf(v)(y, n, e), y(v, m) and n(): the solutions the call returns
RECURSIVE RunMa(_, _, _, _, _), CallSuccess(_, _, _), CallFailure(_)
RunMa(mf, v, y, n, e) ==
    CASE mf.op = "unit" -> CallSuccess(y, v, n)
      [] mf.op = "cut" -> CallSuccess(y, v, e)
      [] mf.op = "fail" -> CallFailure(n)
      [] mf.op = "new_child" -> CallSuccess(y, new_child(v, mf.var, mf.val), n)
      [] mf.op = "then" -> RunMa(mf.goal1, v, on_success(mf.goal2, y, e), n, e)
      [] mf.op = "choice" ->
            RunMa(mf.goal1, v, y, on_failure(mf.goal2, v, y, n, e), e)
      [] mf.op = "amb" -> RunMa(mf.joined, v, y, n, n)
\* success yields v and then what n() yields; bind's yes runs mf on v
CallSuccess(y, v, m) ==
    IF y.k = "success" THEN <<v>> \o CallFailure(m)
    ELSE RunMa(y.goal, v, y.succeed, m, y.escape)
\* failure returns (); choice's on_fail runs the second goal
CallFailure(n) ==
    IF n.k = "failure" THEN <<>>
    ELSE RunMa(n.goal2, n.subst, n.succeed, n.backtrack, n.escape)

\* run(mf, v)
run(mf, v) == RunMa(mf, v, success, failure, failure)

(***************************************************************************)
(* resolve(): the driver loop, one generator per goal of the host program  *)
(***************************************************************************)
goal == scen.goals[cur]
Running == pc[cur] = "running"
Terminal(p) == p \in {"done", "raised", "hung"}

\* a resolve that keeps `result` in one place for all its generators
Assign_shared(value) ==
    IF value.r = "raise"
    THEN /\ pc' = [pc EXCEPT ![cur] = "raised"]
         /\ result' = [i \in 1..Len(result) |-> None]
    ELSE IF value.r = "hang"
    THEN /\ pc' = [pc EXCEPT ![cur] = "hung"]
         /\ result' = [i \in 1..Len(result) |-> None]
    ELSE /\ pc' = [pc EXCEPT ![cur] = "running"]
         /\ result' = [i \in 1..Len(result) |-> value]

\* `result = <call>`: an exception leaves the generator, an endless call hangs it
Assign(value) ==
    IF value.r = "raise"
    THEN /\ pc' = [pc EXCEPT ![cur] = "raised"]
         /\ result' = [result EXCEPT ![cur] = None]
    ELSE IF value.r = "hang"
    THEN /\ pc' = [pc EXCEPT ![cur] = "hung"]
         /\ result' = [result EXCEPT ![cur] = None]
    ELSE /\ pc' = [pc EXCEPT ![cur] = "running"]
         /\ result' = [result EXCEPT ![cur] = value]

\* line 310, run when the host asks for the first element
resolve_start ==
    IF Builds(goal) THEN CallStep(ApplyGoal(goal, Subst), success, failure, failure)
    ELSE [r |-> "raise"]

\* goal(subst) is called: record the calls of wrapped functions it makes
Called(g, subst) == calls' = [calls EXCEPT ![cur] = @ \o CallsOf(g, subst)]

Start ==
    /\ pc[cur] = "created"
    /\ Assign(resolve_start)
    /\ IF Builds(goal) THEN Called(goal, Subst) ELSE UNCHANGED calls
    /\ UNCHANGED <<scen, cur, out, delivered, cutlog>>

\* the thunk of the current ((), thunk) result
Thunk == result[cur].next
Bouncing(fn) == Running /\ result[cur].r = "bounce" /\ Thunk.fn = fn
Stepping(s) == Bouncing("step") /\ Thunk.step.s = s

RunUnit ==
    /\ Stepping("unit")
    /\ Assign(unit_step(Thunk.step.subst, Thunk.succeed, Thunk.backtrack, Thunk.escape))
    /\ UNCHANGED <<scen, cur, out, delivered, cutlog, calls>>

RunCut ==
    /\ Stepping("cut")
    /\ Assign(cut_step(Thunk.step.subst, Thunk.succeed, Thunk.backtrack, Thunk.escape))
    /\ cutlog' = [cutlog EXCEPT ![cur] = Append(@, Thunk.step.subst)]
    /\ UNCHANGED <<scen, cur, out, delivered, calls>>

RunFail ==
    /\ Stepping("fail")
    /\ Assign(fail_step(Thunk.succeed, Thunk.backtrack, Thunk.escape))
    /\ UNCHANGED <<scen, cur, out, delivered, cutlog, calls>>

RunBind ==
    /\ Stepping("mb")
    /\ Assign(mb(Thunk.step.step, Thunk.step.goal,
                 Thunk.succeed, Thunk.backtrack, Thunk.escape))
    /\ UNCHANGED <<scen, cur, out, delivered, cutlog, calls>>

RunChoice ==
    /\ Stepping("choice")
    /\ Assign(choice_step(Thunk.step.goal1, Thunk.step.goal2, Thunk.step.subst,
                          Thunk.succeed, Thunk.backtrack, Thunk.escape))
    /\ Called(Thunk.step.goal1, Thunk.step.subst)
    /\ UNCHANGED <<scen, cur, out, delivered, cutlog>>

RunAmb ==
    /\ Stepping("amb")
    /\ Assign(amb_step(Thunk.step.joined, Thunk.step.subst,
                       Thunk.succeed, Thunk.backtrack, Thunk.escape))
    /\ Called(Thunk.step.joined, Thunk.step.subst)
    /\ UNCHANGED <<scen, cur, out, delivered, cutlog>>

RunOnSuccess ==
    /\ Bouncing("emit") /\ Thunk.emit.k = "on_success"
    /\ Assign(on_success_body(Thunk.emit.goal, Thunk.emit.succeed, Thunk.emit.escape,
                              Thunk.subst, Thunk.backtrack))
    /\ Called(Thunk.emit.goal, Thunk.subst)
    /\ UNCHANGED <<scen, cur, out, delivered, cutlog>>

RunSuccess ==
    /\ Bouncing("emit") /\ Thunk.emit.k = "success"
    /\ Assign(success_body(Thunk.subst, Thunk.backtrack))
    /\ delivered' = [delivered EXCEPT ![cur] = Append(@, Thunk.subst)]
    /\ UNCHANGED <<scen, cur, out, cutlog, calls>>

RunOnFailure ==
    /\ Bouncing("next") /\ Thunk.next.k = "on_failure"
    /\ Assign(on_failure_body(Thunk.next.goal2, Thunk.next.subst, Thunk.next.succeed,
                              Thunk.next.backtrack, Thunk.next.escape))
    /\ Called(Thunk.next.goal2, Thunk.next.subst)
    /\ UNCHANGED <<scen, cur, out, delivered, cutlog>>

RunFailure ==
    /\ Bouncing("next") /\ Thunk.next.k = "failure"
    /\ Assign(failure_body)
    /\ UNCHANGED <<scen, cur, out, delivered, cutlog, calls>>

\* lines 312-314 on a (subst, next) result: `if subst: yield subst.proxy`
ShouldYield(subst) == Truthy(subst)

\* a resolve that gathers its solutions and goes on without suspending
YieldAll ==
    /\ Running /\ result[cur].r = "solution"
    /\ ShouldYield(result[cur].subst)
    /\ out' = [out EXCEPT ![cur] = Append(@, result[cur].subst)]
    /\ Assign(CallNext(result[cur].next))
    /\ UNCHANGED <<scen, cur, delivered, cutlog, calls>>

Yield ==
    /\ Running /\ result[cur].r = "solution"
    /\ ShouldYield(result[cur].subst)
    /\ out' = [out EXCEPT ![cur] = Append(@, result[cur].subst)]
    /\ pc' = [pc EXCEPT ![cur] = "suspended"]
    /\ UNCHANGED <<scen, cur, result, delivered, cutlog, calls>>

\* the same lines when subst is falsy: no yield, straight on to line 315
Skip ==
    /\ Running /\ result[cur].r = "solution"
    /\ ~ShouldYield(result[cur].subst)
    /\ Assign(CallNext(result[cur].next))
    /\ UNCHANGED <<scen, cur, out, delivered, cutlog, calls>>

\* line 315 when the host asks for the next element
Resume ==
    /\ pc[cur] = "suspended"
    /\ Assign(CallNext(result[cur].next))
    /\ UNCHANGED <<scen, cur, out, delivered, cutlog, calls>>

\* line 311: `while result` ends on None
Stop ==
    /\ Running /\ result[cur].r = "none"
    /\ pc' = [pc EXCEPT ![cur] = "done"]
    /\ UNCHANGED <<scen, cur, result, out, delivered, cutlog, calls>>

\* the kinds of host program whose loops may `break`
Breaking == {"lazy"}

\* `break` in the host's loop: the generator is never asked again
Break ==
    /\ pc[cur] = "suspended"
    /\ scen.kind \in Breaking
    /\ pc' = [pc EXCEPT ![cur] = "closed"]
    /\ UNCHANGED <<scen, cur, result, out, delivered, cutlog, calls>>

\* the host's next `for each in resolve(...)` loop
NextLoop ==
    /\ Terminal(pc[cur]) \/ pc[cur] = "closed"
    /\ cur < Len(scen.goals)
    /\ cur' = cur + 1
    /\ UNCHANGED <<scen, pc, result, out, delivered, cutlog, calls>>

\* the kinds of host program that hold several iterators at once
Interleaving == {"shared"}

\* the host turns to another of the iterators it advances together; it can
\* do so only between two requests, when no generator is running
Switch ==
    /\ scen.kind \in Interleaving
    /\ cur \in scen.together
    /\ pc[cur] # "running"
    /\ \E i \in scen.together \ {cur} : cur' = i
    /\ UNCHANGED <<scen, pc, result, out, delivered, cutlog, calls>>

\* the kinds of host program that go on with a loop over run(twin, Subst())
Twins == {"engines"}

\* `for v in run(twin, Subst())` after the host's resolve loops: building
\* the goal may raise; the loop reads every solution
RunDirect ==
    /\ scen.kind \in Twins
    /\ cur = Len(scen.goals) /\ Terminal(pc[cur])
    /\ Len(pc) = Len(scen.goals)
    /\ LET built == Builds(scen.twin)
           solutions == IF built THEN run(scen.twin, Subst) ELSE <<>>
       IN  /\ pc' = Append(pc, IF built THEN "done" ELSE "raised")
           /\ out' = Append(out, solutions)
           /\ delivered' = Append(delivered, solutions)
    /\ result' = Append(result, None)
    /\ cutlog' = Append(cutlog, <<>>)
    /\ calls' = Append(calls, <<>>)
    /\ UNCHANGED <<scen, cur>>

Next ==
    \/ Start \/ RunUnit \/ RunCut \/ RunFail \/ RunBind \/ RunChoice \/ RunAmb
    \/ RunOnSuccess \/ RunSuccess \/ RunOnFailure \/ RunFailure
    \/ Yield \/ Skip \/ Resume \/ Stop \/ Break \/ NextLoop \/ Switch
    \/ RunDirect

(***************************************************************************)
(* Host programs: the goals the host resolves, one loop after the other    *)
(***************************************************************************)
NumAtoms == 2
NumVars == 2

X == Variable(0)
Y == Variable(1)
Z == Variable(2)
\* a variable the alternatives of an amb bind to their position
T == Variable(9)

Num(i) == Atom(ToString(i))
Atoms == {Num(i) : i \in 1..NumAtoms}
Vars == {Variable(i) : i \in 0..(NumVars - 1)}
Terms == Vars \cup Atoms

\* unify((a, b))
Eq(a, b) == unify(<<Tuple(<<a, b>>)>>)

\* goals without cut that raise nothing
Basic == {unit_goal, fail_goal} \cup {Eq(X, a) : a \in Atoms}
\* goals without cut with no, one and several solutions
Plain == Basic \cup {amb(<<Eq(X, Num(1)), Eq(X, Num(2))>>)}
\* and one whose cut stays inside its own amb
Several == Plain \cup {amb(<<seq(<<Eq(X, Num(1)), cut_goal>>), Eq(X, Num(2))>>)}
\* goals to negate: with and without solutions, with and without a cut of their own
Negated ==
    Several \cup {cut_goal,
                  seq(<<cut_goal, fail_goal>>),
                  seq(<<Eq(X, Num(1)), cut_goal>>),
                  seq(<<amb(<<Eq(X, Num(1)), Eq(X, Num(2))>>), cut_goal, fail_goal>>)}
\* goals that produce the substitution s another goal is applied to
Prefix == {unit_goal} \cup {Eq(X, a) : a \in Atoms}

human(a) == amb(<<Eq(a, Atom("socrates")), Eq(a, Atom("plato")), Eq(a, Atom("bob"))>>)
dog(a) == amb(<<Eq(a, Atom("fifi")), Eq(a, Atom("fluffy")), Eq(a, Atom("daisy"))>>)

Examples ==
    { [kind |-> "unit", goals |-> <<unit_goal>>],
      [kind |-> "empty seq", goals |-> <<seq(<<>>)>>],
      [kind |-> "empty amb", goals |-> <<amb(<<>>)>>],
      [kind |-> "list", goals |->
          <<unify(<<Tuple(<<List(<<X, Y, Atom("t")>>), List(<<Y, Z, X>>)>>)>>)>>],
      [kind |-> "cut", goals |->
          <<amb(<<seq(<<Eq(X, Num(1)), cut_goal>>), Eq(X, Num(2))>>)>>],
      [kind |-> "nested cut", goals |->
          <<amb(<<amb(<<seq(<<Eq(X, Num(1)), cut_goal>>), Eq(X, Num(2))>>),
                  Eq(X, Num(3))>>)>>],
      [kind |-> "not dog", goals |->
          <<seq(<<Eq(X, Atom("fluffy")), no(dog(X))>>),
            seq(<<Eq(X, Atom("bob")), no(dog(X))>>)>>],
      [kind |-> "human", goals |-> <<human(X)>>] }

\* unify(p1, p2) next to seq(unify(p1), unify(p2))
PairPrograms ==
    { [kind |-> "pairs",
       goals |-> <<unify(<<Tuple(<<a1, b1>>), Tuple(<<a2, b2>>)>>),
                   seq(<<Eq(a1, b1), Eq(a2, b2)>>)>>] :
      a1 \in Terms, b1 \in Terms, a2 \in Terms, b2 \in Terms }

\* amb of NumAlts alternatives; alternative j binds T to j, alternative c
\* goes on with p, cut, q
NumAlts == 3
PruneBranch(j, c, p, q) ==
    IF j = c THEN seq(<<Eq(T, Num(j)), p, cut_goal, q>>) ELSE Eq(T, Num(j))
PrunePrograms ==
    { [kind |-> "prune", c |-> c, q |-> q,
       goals |-> <<amb([j \in 1..NumAlts |-> PruneBranch(j, c, p, q)])>>] :
      c \in 1..NumAlts, p \in Plain, q \in Basic }

\* an amb with a cut in its first alternative, inside the first alternative
\* of an outer amb
ScopePrograms ==
    { [kind |-> "scope",
       goals |-> <<amb(<<seq(<<pre,
                               amb(<<seq(<<Eq(T, Num(1)), p, cut_goal, q>>),
                                     Eq(T, Num(2))>>),
                               post>>),
                         Eq(T, Num(3))>>)>>] :
      pre \in Basic, p \in Plain, q \in {unit_goal, fail_goal}, post \in Basic }

\* pre, then g on pre's solution, then no(g) on pre's solution
NegationPrograms ==
    { [kind |-> "negation",
       goals |-> <<pre, seq(<<pre, g>>), seq(<<pre, no(g)>>)>>] :
      pre \in Prefix, g \in Negated }

DoubleNegationPrograms ==
    { [kind |-> "double negation", goals |-> <<g, no(no(g))>>] : g \in Negated }

\* no(g) in the first alternative of an amb, itself nested in an amb or not
ContainmentPrograms ==
    { [kind |-> "containment",
       goals |-> <<amb(<<seq(<<Eq(T, Num(1)), pre, no(g), post>>),
                         Eq(T, Num(2)), Eq(T, Num(3))>>),
                   amb(<<amb(<<seq(<<Eq(T, Num(1)), pre, no(g), post>>),
                               Eq(T, Num(2))>>),
                         Eq(T, Num(3))>>)>>] :
      pre \in Prefix, g \in Negated, post \in {unit_goal, fail_goal} }

\* three goals on their own, then as the alternatives of one amb
AlternativePrograms ==
    { [kind |-> "alternatives",
       goals |-> <<g1, g2, g3, amb(<<g1, g2, g3>>)>>] :
      g1 \in Several, g2 \in Several, g3 \in Several }

\* goals to run second in a conjunction, on a substitution that binds X
Second ==
    Basic \cup {Eq(Y, a) : a \in Atoms}
          \cup {amb(<<Eq(Y, Num(1)), Eq(Y, Num(2))>>),
                amb(<<seq(<<Eq(Y, Num(1)), cut_goal>>), Eq(Y, Num(2))>>)}

\* g2 on each of the two solutions of g1 = amb(X = a, X = b), then seq(g1, g2)
ConjunctionPrograms ==
    { [kind |-> "conjunction", a |-> a, b |-> b,
       goals |-> <<seq(<<Eq(X, a), g2>>),
                   seq(<<Eq(X, b), g2>>),
                   seq(<<amb(<<Eq(X, a), Eq(X, b)>>), g2>>)>>] :
      a \in Atoms, b \in Atoms, g2 \in Second }

\* the same two goals conjoined, and disjoined, in both orders
SwapPrograms ==
    { [kind |-> "swap",
       goals |-> <<seq(<<amb(<<Eq(X, a), Eq(X, b)>>), amb(<<Eq(Y, a), Eq(Y, b)>>)>>),
                   seq(<<amb(<<Eq(Y, a), Eq(Y, b)>>), amb(<<Eq(X, a), Eq(X, b)>>)>>),
                   amb(<<Eq(X, a), Eq(X, b)>>),
                   amb(<<Eq(X, b), Eq(X, a)>>)>>] :
      a \in Atoms, b \in Atoms }

\* a goal between a prefix and a suffix, with three distinct continuations:
\* success runs post, failure leads to the alternative tagged 2 and escape
\* skips it to the alternative tagged 3
Context(pre, g, post) ==
    amb(<<amb(<<seq(<<Eq(T, Num(1)), pre, g, post>>), Eq(T, Num(2))>>),
          Eq(T, Num(3))>>)

\* what follows a solution of the goal: accept it or ask for the next
Suffix == {unit_goal, fail_goal}

\* g, seq(unit, g) and seq(g, unit) in the same context
IdentityPrograms ==
    { [kind |-> "identity",
       goals |-> <<Context(pre, g, post),
                   Context(pre, seq(<<unit_goal, g>>), post),
                   Context(pre, seq(<<g, unit_goal>>), post)>>] :
      pre \in Prefix, g \in Negated, post \in Suffix }

\* goals to conjoin: failing, committing, with one and with several
\* solutions, and with a cut of its own
Conjoined ==
    {fail_goal, cut_goal, Eq(X, Num(1)),
     amb(<<Eq(X, Num(1)), Eq(X, Num(2))>>),
     amb(<<seq(<<Eq(Y, Num(1)), cut_goal>>), Eq(Y, Num(2))>>)}

\* the two ways of nesting a conjunction of three goals
AssociativityPrograms ==
    { [kind |-> "associativity",
       goals |-> <<Context(unit_goal, seq(<<g1, seq(<<g2, g3>>)>>), post),
                   Context(unit_goal, seq(<<seq(<<g1, g2>>), g3>>), post)>>] :
      g1 \in Conjoined, g2 \in Conjoined, g3 \in Conjoined, post \in Suffix }

\* unify(X): a goal that raises as soon as it is applied to a substitution
Bomb == unify(<<X>>)

\* fail, and fail followed by g, in the same context
LeftZeroPrograms ==
    { [kind |-> "left zero", g |-> g,
       goals |-> <<Context(pre, fail_goal, unit_goal),
                   Context(pre, seq(<<fail_goal, g>>), unit_goal)>>] :
      pre \in Prefix, g \in Negated \cup {Bomb} }

\* g and amb(g) in the same context
SinglePrograms ==
    { [kind |-> "single", g |-> g,
       goals |-> <<Context(pre, g, post),
                   Context(pre, amb(<<g>>), post)>>] :
      pre \in Prefix, g \in Negated, post \in Suffix }

\* amb() on its own, after a prefix, and with three distinct continuations
EmptyPrograms ==
    { [kind |-> "empty",
       goals |-> <<amb(<<>>),
                   seq(<<pre, amb(<<>>)>>),
                   Context(pre, amb(<<>>), unit_goal)>>] :
      pre \in Prefix }

\* the terms on either side of a unification: atoms, variables and lists
\* of pairs
Operands ==
    Atoms \cup Vars \cup {List(<<Tuple(<<X, a>>)>>) : a \in Atoms}

\* unify((Z, t)) and unify((t, Z)) on a substitution where Z is unbound or
\* bound to an atom, a variable or a list
SymmetryPrograms ==
    { [kind |-> "symmetry", t |-> t,
       goals |-> <<seq(<<pre, unify(<<Tuple(<<Z, t>>)>>)>>),
                   seq(<<pre, unify(<<Tuple(<<t, Z>>)>>)>>)>>] :
      pre \in {unit_goal} \cup {Eq(Z, p) : p \in Operands}, t \in Operands }

\* a unification of two pairs of variables, followed by one more
CyclePrograms ==
    { [kind |-> "cycle",
       goals |-> <<seq(<<unify(<<Tuple(<<a1, b1>>), Tuple(<<a2, b2>>)>>),
                         Eq(c, d)>>)>>] :
      a1 \in Vars, b1 \in Vars, a2 \in Vars, b2 \in Vars,
      c \in Vars, d \in Atoms }

\* terms without variables: atoms, and lists and tuples of atoms
Ground ==
    Atoms \cup {List(<<a>>) : a \in Atoms} \cup {Tuple(<<a>>) : a \in Atoms}
          \cup {List(<<a, b>>) : a \in Atoms, b \in Atoms}

\* a unification of two different terms without variables, as the first
\* alternative of an amb
MismatchPrograms ==
    { [kind |-> "mismatch", a |-> ab[1], b |-> ab[2],
       goals |-> <<Context(unit_goal, Eq(ab[1], ab[2]), unit_goal)>>] :
      ab \in {ab \in Ground \X Ground : ab[1] # ab[2]} }

\* lists and tuples of one and of two elements
Shapes ==
    LET Elems == Atoms \cup {X} IN
    {List(<<e>>) : e \in Elems} \cup {Tuple(<<e>>) : e \in Elems}
        \cup {List(<<e, Num(1)>>) : e \in Elems}
        \cup {Tuple(<<e, Num(1)>>) : e \in Elems}

\* a unification of two compounds of different type or length, as the
\* first alternative of an amb
StrictPrograms ==
    { [kind |-> "strict", a |-> ab[1], b |-> ab[2],
       goals |-> <<Context(unit_goal, Eq(ab[1], ab[2]), unit_goal)>>] :
      ab \in {ab \in Shapes \X Shapes :
                  \/ ab[1].tag # ab[2].tag
                  \/ Len(ab[1].elems) # Len(ab[2].elems)} }

\* substitutions in which X and Y are unbound, bound to each other, or
\* bound to the same atom
Aliasing ==
    {unit_goal, Eq(X, Y), Eq(Y, X), Eq(X, Num(1)),
     seq(<<Eq(X, Num(1)), Eq(Y, Num(1))>>)}

\* a unification of two variables after a prefix, and the prefix alone
VariablePrograms ==
    { [kind |-> "variables", a |-> a, b |-> b,
       goals |-> <<seq(<<pre, Eq(a, b)>>), pre>>] :
      pre \in Aliasing, a \in Vars, b \in Vars }

\* resolve(descendant(X, "fifi")) with child written in each way
DescendantPrograms ==
    { [kind |-> "descendant", how |-> how,
       goals |-> <<descendant(X, Atom("fifi"), how, 0)>>] :
      how \in {"shipped", "list", "pairs"} }

\* a wrapped function that raises when called, in a goal that is never
\* applied and in one that is
DeferredPrograms ==
    { [kind |-> "deferred",
       goals |-> <<seq(<<fail_goal, boom>>), seq(<<unit_goal, boom>>)>>] }

\* goals whose solutions another goal is applied to
Before == Prefix \cup {amb(<<Eq(X, Num(1)), Eq(X, Num(2))>>)}

\* a goal g wrapped by predicate, g itself, and the goal before them
WrappedPrograms ==
    { [kind |-> "wrapped", g |-> g,
       goals |-> <<seq(<<p, constant(g)>>), seq(<<p, g>>), p>>] :
      p \in Before, g \in Negated }

\* goals that add bindings of X or Y
Binders ==
    {Eq(X, a) : a \in Atoms} \cup {Eq(Y, a) : a \in Atoms}
        \cup {fail_goal, amb(<<Eq(Y, Num(1)), Eq(Y, Num(2))>>)}

\* an amb of two tagged alternatives on the substitution left by pre, its
\* second alternative on its own after pre, and pre
AbandonPrograms ==
    { [kind |-> "abandon",
       goals |-> <<seq(<<pre, amb(<<seq(<<Eq(T, Num(1)), g1>>),
                                    seq(<<Eq(T, Num(2)), g2>>)>>)>>),
                   seq(<<pre, Eq(T, Num(2)), g2>>),
                   pre>>] :
      pre \in Prefix, g1 \in Binders, g2 \in Binders }

\* the same query in two loops, either of which may break
LazyPrograms ==
    { [kind |-> "lazy", goals |-> <<g, g>>] :
      g \in {human(X),
             amb(<<Eq(X, Num(1)), Eq(X, Num(2))>>),
             seq(<<amb(<<Eq(X, Num(1)), Eq(X, Num(2))>>),
                   amb(<<seq(<<Eq(Y, Num(1)), cut_goal>>), Eq(Y, Num(2))>>)>>)} }

MaxCalls == 12
\* a conjunction that ends in a predicate that calls itself n times
StackPrograms ==
    { [kind |-> "stack", n |-> n, via |-> via,
       goals |-> <<seq(<<amb(<<Eq(X, Num(1)), Eq(X, Num(2))>>),
                         IF via = "direct" THEN direct(n) ELSE counted(n)>>)>>] :
        n \in 0..MaxCalls, via \in {"direct", "counted"} }

\* g followed by a cut with three distinct continuations, accepted and
\* rejected by what follows; g alone in the same place; and both at top level
CommitPrograms ==
    { [kind |-> "commit", g |-> g,
       goals |-> <<Context(pre, seq(<<g, cut_goal>>), unit_goal),
                   Context(pre, seq(<<g, cut_goal>>), fail_goal),
                   Context(pre, g, unit_goal),
                   seq(<<g, cut_goal>>),
                   g>>] :
      pre \in Prefix, g \in Negated }

\* the longest argument list of seq and amb
MaxGoals == 3

\* a goal written with the combinators of yogic (y) and the same expression
\* written with those of yogic.backtracking (b)
Both(y, b) == [y |-> y, b |-> b]
Atomic == {unit_goal, fail_goal, cut_goal, bind_goal(X, Num(1))}
Leaves == {Both(g, g) : g \in Atomic}
Ys(ps) == [i \in DOMAIN ps |-> ps[i].y]
Bs(ps) == [i \in DOMAIN ps |-> ps[i].b]
SeqOf(ps) == Both(seq(Ys(ps)), bt_seq(Bs(ps)))
AmbOf(ps) == Both(amb(Ys(ps)), bt_amb(Bs(ps)))
NoOf(p) == Both(no(p.y), bt_no(p.b))
Expressions ==
    LET Lists == UNION {[1..k -> Leaves] : k \in 0..MaxGoals}
        Cut == Both(cut_goal, cut_goal)
    IN  Leaves
            \cup {SeqOf(ps) : ps \in Lists} \cup {AmbOf(ps) : ps \in Lists}
            \cup {Both(then(p.y, q.y), then(p.b, q.b)) : p \in Leaves, q \in Leaves}
            \cup {Both(choice(p.y, q.y), choice(p.b, q.b)) : p \in Leaves, q \in Leaves}
            \cup {NoOf(p) : p \in Leaves}
            \cup {AmbOf(<<SeqOf(<<p, Cut>>), q>>) : p \in Leaves, q \in Leaves}
            \cup {SeqOf(<<AmbOf(<<p, q>>), r>>) :
                     p \in Leaves, q \in Leaves, r \in Leaves}

\* resolve(g) followed by run(g', Subst()) for the same expression
EnginePrograms ==
    { [kind |-> "engines", goals |-> <<p.y>>, twin |-> p.b] : p \in Expressions }

\* goals that leave a substitution with bindings: of a variable to an atom
\* and to a variable, of one variable twice, and of two alternatives
Bound ==
    {unit_goal, Eq(X, Num(1)), Eq(X, Y),
     unify(<<Tuple(<<X, Num(1)>>), Tuple(<<X, Num(2)>>)>>),
     amb(<<Eq(X, Num(1)), Eq(X, Num(2))>>)}

\* goals that push layers: unifications of one and of two pairs, and
\* alternatives with and without a cut
Growing ==
    {Eq(a, b) : a \in Terms, b \in Terms}
        \cup {unify(<<Tuple(<<a, b>>), Tuple(<<c, d>>)>>) :
                 a \in Vars, b \in Terms, c \in Vars, d \in Terms}
        \cup {amb(<<Eq(Y, Num(1)), Eq(Y, Num(2))>>),
              amb(<<seq(<<Eq(Y, Num(1)), cut_goal>>), Eq(Y, Num(2))>>),
              no(Eq(X, Num(1)))}

\* pre, then g on the solutions of pre
GrowPrograms ==
    { [kind |-> "grow", goals |-> <<pre, seq(<<pre, g>>)>>] :
      pre \in Bound, g \in Growing }

\* a wrapped function that returns g, called between three distinct
\* continuations, and g itself in the same place
BarrierPrograms ==
    { [kind |-> "barrier", g |-> g,
       goals |-> <<Context(unit_goal, constant(g), post),
                   Context(unit_goal, g, post)>>] :
      g \in Negated, post \in Suffix }

\* a loop over resolve(g), then two iterators of resolve(g) for the same
\* goal value, advanced in turns
SharedPrograms ==
    { [kind |-> "shared", together |-> {2, 3}, goals |-> <<g, g, g>>] :
      g \in {human(X),
             amb(<<seq(<<Eq(X, Num(1)), Eq(Y, X)>>), Eq(X, Num(2))>>),
             seq(<<amb(<<Eq(X, Num(1)), Eq(X, Num(2))>>),
                   amb(<<seq(<<Eq(Y, Num(1)), cut_goal>>), Eq(Y, Num(2))>>)>>),
             seq(<<amb(<<Eq(X, Num(1)), Eq(X, Num(2))>>), no(Eq(X, Num(1)))>>),
             descendant(X, Atom("fifi"), "pairs", 0)} }

Programs ==
    Examples \cup PairPrograms \cup PrunePrograms \cup ScopePrograms
        \cup NegationPrograms \cup DoubleNegationPrograms
        \cup ContainmentPrograms
        \cup AlternativePrograms \cup ConjunctionPrograms \cup SwapPrograms
        \cup IdentityPrograms \cup AssociativityPrograms
        \cup LeftZeroPrograms \cup SinglePrograms \cup EmptyPrograms
        \cup SymmetryPrograms \cup CyclePrograms \cup MismatchPrograms
        \cup StrictPrograms \cup VariablePrograms \cup DescendantPrograms
        \cup DeferredPrograms \cup WrappedPrograms \cup AbandonPrograms
        \cup LazyPrograms \cup StackPrograms \cup CommitPrograms
        \cup EnginePrograms \cup GrowPrograms \cup BarrierPrograms
        \cup SharedPrograms

Init ==
    /\ scen \in Programs
    /\ cur = 1
    /\ pc = [i \in 1..Len(scen.goals) |-> "created"]
    /\ result = [i \in 1..Len(scen.goals) |-> None]
    /\ out = [i \in 1..Len(scen.goals) |-> <<>>]
    /\ delivered = [i \in 1..Len(scen.goals) |-> <<>>]
    /\ cutlog = [i \in 1..Len(scen.goals) |-> <<>>]
    /\ calls = [i \in 1..Len(scen.goals) |-> <<>>]

Spec == Init /\ [][Next]_vars

\* the example programs, amb(), unifications of two pairs, the loops
\* that may break and the loops over both engines for one step; the host
\* keeps running its loop and the generator it drives
InitExamples ==
    /\ Init
    /\ scen \in Examples \cup EmptyPrograms \cup LazyPrograms
                  \cup {p \in CyclePrograms : p.goals[1].goal2 = Eq(X, Num(1))}
                  \cup {p \in EnginePrograms : p.twin \in Atomic}
                  \cup {p \in SharedPrograms : p.goals[1] = human(X)}
FairSpec == InitExamples /\ [][Next]_vars /\ WF_vars(Next)

AllDone == \A i \in 1..Len(scen.goals) : pc[i] = "done"
AllOver == \A i \in 1..Len(scen.goals) : Terminal(pc[i])

(***************************************************************************)
(* What the host reads from a solution: the proxy lookups of the variables *)
(***************************************************************************)
Named == {X, Y, Z, T}
View(subst) == [v \in Named |-> proxy(subst, v)]
Views(substs) == [i \in 1..Len(substs) |-> View(substs[i])]

(***************************************************************************)
(* C1. unify(p1, p2) delivers the solutions of seq(unify(p1), unify(p2)):  *)
(* the same number of solutions, in the same order, with the same value    *)
(* for every variable, and both end the same way.                          *)
(* Fails: all pairs are dereferenced against the substitution unify() was  *)
(* applied to, before any of them has bound anything.                      *)
(***************************************************************************)
MultiPairIsSeq ==
    (scen.kind = "pairs" /\ AllOver)
        => /\ pc[1] = pc[2]
           /\ Views(delivered[1]) = Views(delivered[2])

(***************************************************************************)
(* C2. resolve(unify(([X, Y, "t"], [Y, Z, X]))) yields exactly one         *)
(* solution, with X = Y = Z = "t".                                         *)
(* Fails: the element goals are built by unify(x, y), which takes its two  *)
(* arguments for two pairs and raises when it unpacks them.                *)
(***************************************************************************)
ListDecomposition ==
    (scen.kind = "list" /\ Terminal(pc[1]))
        => /\ pc[1] = "done"
           /\ Len(out[1]) = 1
           /\ \A v \in {X, Y, Z} : proxy(out[1][1], v) = Atom("t")

(***************************************************************************)
(* C3. resolve(unit) and resolve(seq()) yield exactly one solution, the    *)
(* empty substitution, and then end.                                       *)
(* Fails: resolve yields only substitutions that are truthy, and a Subst   *)
(* without bindings is falsy.                                              *)
(***************************************************************************)
UnitYieldsOnce ==
    (scen.kind \in {"unit", "empty seq"} /\ Terminal(pc[1]))
        => /\ pc[1] = "done"
           /\ out[1] = <<Subst>>

Tag(subst) == proxy(subst, T)
Tags(substs) == [i \in 1..Len(substs) |-> Tag(substs[i])]
Xs(substs) == [i \in 1..Len(substs) |-> proxy(substs[i], X)]
Count(tags, tag) == Cardinality({i \in 1..Len(tags) : tags[i] = tag})

(***************************************************************************)
(* C4. In an amb whose alternative c reaches a cut (not inside a nested    *)
(* amb), the cut is reached once, no solution of an alternative after c is *)
(* ever produced, and when the cut ends the alternative the substitution   *)
(* at the cut is produced, as the last solution.                           *)
(* resolve(amb(seq(unify((X,1)), cut), unify((X,2)))) yields X = 1 only.   *)
(***************************************************************************)
CutPrunes ==
    /\ (scen.kind = "prune" /\ cutlog[1] # <<>>)
        => /\ Len(cutlog[1]) = 1
           /\ \A k \in 1..Len(delivered[1]) :
                 Tag(delivered[1][k]) \in {Num(j) : j \in 1..scen.c}
           /\ (pc[1] = "done" /\ scen.q = unit_goal)
                 => /\ delivered[1] # <<>>
                    /\ delivered[1][Len(delivered[1])] = cutlog[1][1]
                    /\ Count(Tags(delivered[1]), Num(scen.c)) = 1
    /\ (scen.kind = "cut" /\ pc[1] = "done") => Xs(out[1]) = <<Num(1)>>

CutPrunesWitness ==
    /\ scen.kind = "prune" /\ scen.c = 1 /\ scen.q = unit_goal
    /\ pc[1] = "done"
    /\ cutlog[1] # <<>>
    /\ delivered[1] = cutlog[1]

(***************************************************************************)
(* C5. A cut reached in an alternative of an inner amb prunes the inner    *)
(* amb's remaining alternative only: the next alternative of the enclosing *)
(* amb is explored afterwards and produces its solution, last.             *)
(* resolve(amb(amb(seq(unify((X,1)), cut), unify((X,2))), unify((X,3))))   *)
(* yields X = 1, then X = 3.                                               *)
(***************************************************************************)
CutScoped ==
    /\ (scen.kind = "scope" /\ pc[1] = "done" /\ cutlog[1] # <<>>)
        => /\ Count(Tags(delivered[1]), Num(2)) = 0
           /\ Count(Tags(delivered[1]), Num(3)) = 1
           /\ Tag(delivered[1][Len(delivered[1])]) = Num(3)
    /\ (scen.kind = "nested cut" /\ pc[1] = "done") => Xs(out[1]) = <<Num(1), Num(3)>>

CutScopedWitness ==
    /\ scen.kind = "scope" /\ pc[1] = "done"
    /\ cutlog[1] # <<>>
    /\ Tags(delivered[1]) = <<Num(1), Num(3)>>

(***************************************************************************)
(* C6. If g has at least one solution on s, no(g) delivers no solution on  *)
(* s.  resolve(seq(unify((X,"fluffy")), no(dog(X)))) yields nothing and    *)
(* resolve(seq(unify((X,"bob")), no(dog(X)))) yields X = "bob" only.       *)
(***************************************************************************)
NegationFails ==
    /\ (scen.kind = "negation" /\ AllDone /\ delivered[2] # <<>>)
        => delivered[3] = <<>>
    /\ (scen.kind = "not dog" /\ AllDone)
        => /\ out[1] = <<>>
           /\ Xs(out[2]) = <<Atom("bob")>>

NegationFailsWitness ==
    /\ scen.kind = "negation" /\ AllDone
    /\ Len(delivered[2]) = 2
    /\ cutlog[3] # <<>>
    /\ delivered[3] = <<>>

(***************************************************************************)
(* C7. If g has no solution on s, no(g) succeeds exactly once on s and     *)
(* delivers s, also when g contains a cut.                                 *)
(* Fails: a cut of g that is not inside an amb of g takes the escape       *)
(* continuation of the amb that no() builds, so the failure of g skips the *)
(* alternative unit.                                                       *)
(***************************************************************************)
NegationSucceeds ==
    (scen.kind = "negation" /\ AllDone /\ delivered[2] = <<>>)
        => delivered[3] = delivered[1]

(***************************************************************************)
(* C8. Whatever g does, cut included, the alternatives that follow the one *)
(* holding no(g) in an enclosing amb, and those of the amb around it, are  *)
(* all explored after no(g) has finished: each produces its solution, in   *)
(* order, after the solutions of the alternative with no(g).               *)
(***************************************************************************)
EndsWith23(tags) ==
    /\ Len(tags) >= 2
    /\ tags[Len(tags) - 1] = Num(2)
    /\ tags[Len(tags)] = Num(3)
    /\ \A k \in 1..(Len(tags) - 2) : tags[k] = Num(1)

NegationContainsCut ==
    scen.kind = "containment"
        => \A i \in 1..2 : pc[i] = "done" => EndsWith23(Tags(delivered[i]))

NegationContainsCutWitness ==
    /\ scen.kind = "containment" /\ AllDone
    /\ Len(cutlog[1]) = 1 /\ Len(cutlog[2]) = 1
    /\ Tags(delivered[1]) = <<Num(2), Num(3)>>
    /\ Tags(delivered[2]) = <<Num(2), Num(3)>>

(***************************************************************************)
(* C9. resolve(no(no(g))) yields exactly one solution, the substitution    *)
(* without bindings, if g has a solution, and none if g has none.          *)
(* Fails: the one solution binds nothing, and resolve does not yield a     *)
(* substitution without bindings (C3).                                     *)
(***************************************************************************)
DoubleNegation ==
    (scen.kind = "double negation" /\ AllDone)
        => /\ delivered[1] # <<>> => out[2] = <<Subst>>
           /\ delivered[1] = <<>> => out[2] = <<>>

(***************************************************************************)
(* C10. amb(g1, g2, g3), with no cut reached outside an amb of the gi,     *)
(* produces all solutions of g1, then all of g2, then all of g3, each in   *)
(* its own order, to the success continuation and to the host alike.       *)
(* resolve(human(X)) yields socrates, plato, bob.                          *)
(***************************************************************************)
AmbInOrder ==
    /\ (scen.kind = "alternatives" /\ AllDone)
        => /\ delivered[4] = delivered[1] \o delivered[2] \o delivered[3]
           /\ out[4] = out[1] \o out[2] \o out[3]
    /\ (scen.kind = "human" /\ pc[1] = "done")
        => Xs(out[1]) = <<Atom("socrates"), Atom("plato"), Atom("bob")>>

AmbInOrderWitness ==
    /\ scen.kind = "alternatives" /\ AllDone
    /\ Len(delivered[1]) = 2 /\ Len(delivered[2]) = 1 /\ Len(delivered[3]) = 1
    /\ cutlog[3] # <<>>
    /\ Len(delivered[4]) = 4

(***************************************************************************)
(* The substitutions the engine has in hand: those of the step, success    *)
(* call or solution that `result` holds                                    *)
(***************************************************************************)
RECURSIVE StepSubsts(_)
StepSubsts(step) ==
    IF step.s = "mb" THEN StepSubsts(step.step)
    ELSE IF step.s = "fail" THEN {}
    ELSE {step.subst}

InHand(res) ==
    IF res.r = "solution" THEN {res.subst}
    ELSE IF res.r # "bounce" THEN {}
    ELSE IF res.next.fn = "emit" THEN {res.next.subst}
    ELSE IF res.next.fn = "step" THEN StepSubsts(res.next.step)
    ELSE {}

IsPrefix(short, long) ==
    /\ Len(short) <= Len(long)
    /\ SubSeq(long, 1, Len(short)) = short

SameElements(s1, s2) ==
    /\ Len(s1) = Len(s2)
    /\ \A e \in {s1[i] : i \in 1..Len(s1)} :
          Count(s1, e) = Count(s2, e)

(***************************************************************************)
(* C11. With g1 = amb(X = a, X = b): seq(g1, g2) produces the solutions of *)
(* g2 on g1's first solution, then those of g2 on g1's second solution,    *)
(* each in g2's order; and by the time the engine holds a substitution     *)
(* with g1's second solution, all solutions of g2 on the first one have    *)
(* been produced.  Swapping the arguments of seq, or of amb, gives the     *)
(* same solutions in another order when the arguments differ.              *)
(***************************************************************************)
SeqDepthFirst ==
    /\ (scen.kind = "conjunction" /\ AllDone)
        => /\ delivered[3] = delivered[1] \o delivered[2]
           /\ out[3] = out[1] \o out[2]
    /\ (scen.kind = "conjunction" /\ scen.a # scen.b /\ cur = 3
            /\ \E s \in InHand(result[3]) : proxy(s, X) = scen.b)
        => IsPrefix(delivered[1], delivered[3])
    /\ (scen.kind = "swap" /\ AllDone /\ Len(delivered[3]) = 2
            /\ delivered[3][1] # delivered[3][2])
        => /\ Views(delivered[1]) # Views(delivered[2])
           /\ SameElements(Views(delivered[1]), Views(delivered[2]))
           /\ delivered[4] = <<delivered[3][2], delivered[3][1]>>

SeqDepthFirstWitness ==
    /\ scen.kind = "conjunction" /\ scen.a # scen.b /\ cur = 3
    /\ Len(delivered[1]) = 2 /\ Len(delivered[2]) = 2
    /\ Len(delivered[3]) = 3
    /\ \E s \in InHand(result[3]) : proxy(s, X) = scen.b

(***************************************************************************)
(* C12. In a context whose success, failure and escape continuations lead  *)
(* to different tagged solutions, seq(unit, g) and seq(g, unit) deliver    *)
(* the same solutions in the same order as g, for g with and without cut.  *)
(***************************************************************************)
UnitIdentity ==
    (scen.kind = "identity" /\ AllDone)
        => /\ delivered[2] = delivered[1] /\ delivered[3] = delivered[1]
           /\ out[2] = out[1] /\ out[3] = out[1]
           /\ cutlog[2] = cutlog[1] /\ cutlog[3] = cutlog[1]

UnitIdentityWitness ==
    /\ scen.kind = "identity" /\ AllDone
    /\ cutlog[1] # <<>>
    /\ Tags(delivered[2]) = <<Num(3)>>
    /\ Tags(delivered[3]) = <<Num(3)>>

(***************************************************************************)
(* C13. In a context whose success, failure and escape continuations lead  *)
(* to different tagged solutions, seq(g1, seq(g2, g3)) and                 *)
(* seq(seq(g1, g2), g3) deliver the same solutions in the same order and   *)
(* run the same cuts, for goals with and without cut.                      *)
(***************************************************************************)
SeqAssociative ==
    (scen.kind = "associativity" /\ AllDone)
        => /\ delivered[2] = delivered[1]
           /\ out[2] = out[1]
           /\ cutlog[2] = cutlog[1]

\* a cut of the conjunction commits to X = 1, the context rejects the
\* solution and the escape continuation is taken
SeqAssociativeWitness ==
    /\ scen.kind = "associativity" /\ AllDone
    /\ \A i \in 1..2 :
          /\ Len(cutlog[i]) = 1 /\ proxy(cutlog[i][1], X) = Num(1)
          /\ Tags(delivered[i]) = <<Num(3)>>

(***************************************************************************)
(* C14. seq(fail, g) delivers no solution of its own and takes the failure *)
(* continuation as fail does: in a context where failure leads to the      *)
(* alternatives tagged 2 and 3 and escape to 3 alone, both deliver 2 then  *)
(* 3.  g is never run: none of its cuts runs and a g that raises when      *)
(* applied does not raise.                                                 *)
(***************************************************************************)
FailLeftZero ==
    scen.kind = "left zero"
        => /\ pc[2] \notin {"raised", "hung"}
           /\ cutlog[2] = <<>>
           /\ \A i \in 1..Len(delivered[2]) : Tag(delivered[2][i]) # Num(1)
           /\ AllDone => /\ delivered[2] = delivered[1]
                         /\ out[2] = out[1]
                         /\ Tags(delivered[2]) = <<Num(2), Num(3)>>

FailLeftZeroWitness ==
    /\ scen.kind = "left zero" /\ AllDone
    /\ scen.g = Bomb
    /\ Tags(delivered[2]) = <<Num(2), Num(3)>>

(***************************************************************************)
(* C15. In every context, amb(g) delivers the same solutions and prunes    *)
(* the same alternatives as g, for g with and without cut.                 *)
(* Fails as stated: a cut of g that no amb inside g encloses is stopped by *)
(* amb(g) and no longer prunes the alternatives around it.                 *)
(***************************************************************************)
SingleAmbIsGoal ==
    (scen.kind = "single" /\ AllDone)
        => /\ delivered[2] = delivered[1]
           /\ out[2] = out[1]

(***************************************************************************)
(* C15, amended. In every context, amb(g) delivers the same solutions and  *)
(* prunes the same alternatives as g, for every g all of whose cuts are    *)
(* enclosed by an amb inside g; for any other g, amb(g) still delivers the *)
(* solutions of g itself (those tagged 1) in the same order and runs the   *)
(* same cuts.                                                              *)
(***************************************************************************)
OfGoal(subst) == Tag(subst) = Num(1)

SingleAmbContainsCut ==
    (scen.kind = "single" /\ AllDone)
        => /\ scen.g \in Several
                => /\ delivered[2] = delivered[1]
                   /\ out[2] = out[1]
           /\ SelectSeq(delivered[2], OfGoal) = SelectSeq(delivered[1], OfGoal)
           /\ cutlog[2] = cutlog[1]

SingleAmbContainsCutWitness ==
    /\ scen.kind = "single" /\ AllDone
    /\ scen.g \in Several /\ cutlog[1] # <<>>
    /\ Tags(delivered[1]) = <<Num(1), Num(2), Num(3)>>
    /\ Tags(delivered[2]) = <<Num(1), Num(2), Num(3)>>

(***************************************************************************)
(* C16. amb() applied to any substitution delivers no solution and takes   *)
(* the failure continuation: on its own and after a prefix resolve yields  *)
(* nothing, and in a context where failure leads to the alternatives       *)
(* tagged 2 and 3 and escape to 3 alone, 2 and 3 are delivered.  Every     *)
(* resolve of it ends.                                                     *)
(***************************************************************************)
EmptyAmbFails ==
    /\ [](scen.kind \in {"empty", "empty amb"}
            => /\ delivered[1] = <<>> /\ out[1] = <<>>
               /\ \A i \in 1..Len(pc) : pc[i] \notin {"raised", "hung"})
    /\ [](scen.kind = "empty"
            => /\ delivered[2] = <<>> /\ out[2] = <<>>
               /\ \A i \in 1..Len(delivered[3]) : Tag(delivered[3][i]) # Num(1)
               /\ AllDone => Tags(delivered[3]) = <<Num(2), Num(3)>>)
    /\ (scen.kind \in {"empty", "empty amb"}) ~> AllDone

EmptyAmbFailsWitness ==
    /\ scen.kind = "empty" /\ AllDone
    /\ delivered[1] = <<>> /\ delivered[2] = <<>>
    /\ Tags(out[3]) = <<Num(2), Num(3)>>

(***************************************************************************)
(* Two solutions give every variable the same resolved value, up to which  *)
(* of several unbound variables bound to each other stands for them all    *)
(***************************************************************************)
Alike(s1, s2) ==
    /\ \A u \in Named :
          \/ proxy(s1, u) = proxy(s2, u)
          \/ IsVariable(proxy(s1, u)) /\ IsVariable(proxy(s2, u))
    /\ \A u, w \in Named :
          (proxy(s1, u) = proxy(s1, w)) <=> (proxy(s2, u) = proxy(s2, w))

(***************************************************************************)
(* C17. For a variable Z, a term t (atom, variable or list) and a          *)
(* substitution, unify((Z, t)) and unify((t, Z)) end the same way with the *)
(* same number of solutions, which give every variable the same resolved   *)
(* value.                                                                  *)
(* Fails: when Z is bound to a list and t is a list, the elements are      *)
(* taken as pairs (C2) and unified without seeing each other's bindings    *)
(* (C1), so the side that comes last wins.                                 *)
(***************************************************************************)
UnifySymmetric ==
    (scen.kind = "symmetry" /\ AllOver)
        => /\ pc[2] = pc[1]
           /\ Len(delivered[2]) = Len(delivered[1])
           /\ \A i \in 1..Len(delivered[1]) :
                 i <= Len(delivered[2]) => Alike(delivered[1][i], delivered[2][i])

(***************************************************************************)
(* C18. Whenever unify(p1, p2) delivers a solution, the two sides of each  *)
(* pair have the same fully resolved term under that solution.             *)
(* Fails: both pairs are dereferenced before either binds (C1), so         *)
(* unify((X, 1), (X, 2)) delivers a solution, under which X is 2.          *)
(***************************************************************************)
UnifySound ==
    scen.kind = "pairs"
        => \A i \in 1..Len(delivered[1]) :
             \A k \in 1..Len(scen.goals[1].pairs) :
                LET s == delivered[1][i]
                    pair == scen.goals[1].pairs[k].elems
                IN  /\ smooth(s, pair[1]) # Diverges
                    /\ smooth(s, pair[1]) = smooth(s, pair[2])

(***************************************************************************)
(* The substitutions a resolve has reached: those delivered so far and     *)
(* those the engine has in hand                                            *)
(***************************************************************************)
Reached ==
    UNION {{delivered[i][k] : k \in 1..Len(delivered[i])} : i \in 1..Len(delivered)}
        \cup UNION {InHand(result[i]) : i \in 1..Len(result)}

(***************************************************************************)
(* C19. In every substitution reached during a resolve, each variable is a *)
(* key of at most one layer of the chain.                                  *)
(* Fails: unify((X, 1), (X, 2)) pushes {X: 1} and then {X: 2} (C1).        *)
(***************************************************************************)
NoRebinding ==
    \A s \in Reached :
       \A m \in 1..Len(s) : \A n \in 1..Len(s) :
          m # n => (DOMAIN s[m]) \cap (DOMAIN s[n]) = {}

(***************************************************************************)
(* C20. In every substitution reached during a resolve, deref of every     *)
(* variable terminates, and no unification loops.                          *)
(* Fails: unify((X, Y), (Y, X)) binds X to Y and Y to X (C1); the next     *)
(* unification of X or Y never returns from deref.                         *)
(***************************************************************************)
Acyclic ==
    /\ \A s \in Reached : \A v \in Named : deref(s, v) # Diverges
    /\ \A i \in 1..Len(pc) : pc[i] # "hung"

(***************************************************************************)
(* The variables that occur in a term                                      *)
(***************************************************************************)
RECURSIVE VarsOf(_)
VarsOf(term) ==
    IF IsVariable(term) THEN {term}
    ELSE IF IsSequence(term)
    THEN UNION {VarsOf(term.elems[i]) : i \in 1..Len(term.elems)}
    ELSE {}

(***************************************************************************)
(* C21. For every solution yielded by a resolve of unifications of atoms   *)
(* and variables (no compound term, so that no term contains itself) and   *)
(* every variable v, the proxy lookup of v terminates and returns a term   *)
(* in which no bound variable remains.                                     *)
(* Fails: unify((X, Y), (Y, X)) yields a solution in which X is bound to Y *)
(* and Y to X (C1, C20); the lookup of X never returns.                    *)
(***************************************************************************)
SmoothTerminates ==
    scen.kind \in {"pairs", "cycle"}
        => \A i \in 1..Len(out) : \A k \in 1..Len(out[i]) : \A v \in Named :
              /\ proxy(out[i][k], v) # Diverges
              /\ \A w \in VarsOf(proxy(out[i][k], v)) : ~Contains(out[i][k], w)

(***************************************************************************)
(* C22. Unifying two different terms without variables (different atoms,   *)
(* compounds of different type or length, compounds with a mismatching     *)
(* element) raises no exception, delivers no solution and takes the        *)
(* failure continuation, so that the enclosing amb delivers its            *)
(* alternatives tagged 2 and 3.                                            *)
(* Fails: for two compounds of the same type and length the elements are   *)
(* handed to unify as if they were pairs (C2), and unpacking an atom       *)
(* raises TypeError.                                                       *)
(***************************************************************************)
MismatchFails ==
    scen.kind = "mismatch"
        => /\ pc[1] # "raised"
           /\ \A i \in 1..Len(delivered[1]) : Tag(delivered[1][i]) # Num(1)
           /\ AllDone => Tags(delivered[1]) = <<Num(2), Num(3)>>

(***************************************************************************)
(* C23. A list and a tuple never unify, even with the same length and      *)
(* pairwise equal elements, and compounds of different lengths never       *)
(* unify: the unification raises nothing, delivers no solution and fails,  *)
(* so that the enclosing amb delivers its alternatives tagged 2 and 3.     *)
(***************************************************************************)
CompatibleStrict ==
    scen.kind = "strict"
        => /\ pc[1] \notin {"raised", "hung"}
           /\ \A i \in 1..Len(delivered[1]) : Tag(delivered[1][i]) # Num(1)
           /\ AllDone => /\ Tags(delivered[1]) = <<Num(2), Num(3)>>
                         /\ Tags(out[1]) = <<Num(2), Num(3)>>

CompatibleStrictWitness ==
    /\ scen.kind = "strict" /\ AllDone
    /\ scen.a = List(<<Num(1), Num(1)>>)
    /\ scen.b = Tuple(<<Num(1), Num(1)>>)
    /\ Tags(delivered[1]) = <<Num(2), Num(3)>>

(***************************************************************************)
(* C24. On the substitution s left by a prefix, unify((a, b)) with a and b *)
(* dereferencing to distinct unbound variables succeeds once with s plus   *)
(* one new layer that binds the first to the second, which stays unbound;  *)
(* with a and b dereferencing to the same term (the same variable          *)
(* included) it succeeds once with s itself, no layer pushed.              *)
(***************************************************************************)
VariableBinding ==
    (scen.kind = "variables" /\ AllDone)
        => /\ Len(delivered[2]) = 1
           /\ LET s == delivered[2][1]
                  this == deref(s, scen.a)
                  that == deref(s, scen.b)
              IN  /\ this = that => delivered[1] = <<s>>
                  /\ (this # that /\ IsVariable(this) /\ IsVariable(that))
                        => /\ delivered[1] = <<<<(this :> that)>> \o s>>
                           /\ ~Contains(delivered[1][1], that)
                           /\ out[1] = delivered[1]

\* unify((X, Y)) on the empty substitution pushes the layer {X: Y}
VariableBindingWitness ==
    /\ scen.kind = "variables" /\ AllDone
    /\ scen.a = X /\ scen.b = Y
    /\ delivered[2] = <<Subst>>
    /\ delivered[1] = <<<<(X :> Y), EmptyLayer>>>>

(***************************************************************************)
(* C25. resolve(descendant(X, "fifi")) yields X = "fluffy", then           *)
(* X = "daisy", and then ends, however child states its four pairs: as     *)
(* the example program does, by unifying the list [a, b] with the list of  *)
(* the pair, or by unifying a and b with the items of the pair.            *)
(* Fails: child as the example program has it never succeeds, because      *)
(* unify takes each of its two lists as a pair to unify; and unifying the  *)
(* two lists raises TypeError (C2).                                        *)
(***************************************************************************)
DescendantEnumerates ==
    (scen.kind = "descendant" /\ Terminal(pc[1]))
        => /\ pc[1] = "done"
           /\ Xs(out[1]) = <<Atom("fluffy"), Atom("daisy")>>

(***************************************************************************)
(* The substitutions the wrapped functions were called at, and the calls   *)
(* of one function                                                         *)
(***************************************************************************)
CalledAt(log) == [i \in 1..Len(log) |-> log[i].subst]
CallsTo(log, name) == Cardinality({i \in 1..Len(log) : log[i].name = name})

(***************************************************************************)
(* C26. A goal made by predicate does not call its function when it is     *)
(* built, nor while it is not applied: a function that raises does so only *)
(* when its goal is applied.  The function is called once for each         *)
(* substitution the goal is applied to, in order, and the goal behaves as  *)
(* the goal the function returns.  A predicate that refers to itself is    *)
(* called once when applied and its next call comes after a call of child; *)
(* resolve(descendant(X, "fifi")) calls descendant 6 and child 12 times.   *)
(***************************************************************************)
PredicateDefers ==
    /\ scen.kind = "deferred"
        => /\ pc[1] # "raised" /\ calls[1] = <<>>
           /\ Terminal(pc[2]) => (pc[2] = "raised" /\ CallsTo(calls[2], "boom") = 1)
    /\ (scen.kind = "wrapped" /\ AllDone)
        => /\ delivered[1] = delivered[2] /\ out[1] = out[2]
           /\ cutlog[1] = cutlog[2]
           /\ calls[2] = <<>>
           /\ IsPrefix(CalledAt(calls[1]), delivered[3])
           /\ delivered[3] # <<>> => calls[1] # <<>>
           /\ scen.g \in Several => CalledAt(calls[1]) = delivered[3]
    /\ (scen.kind = "descendant" /\ scen.how = "pairs")
        => /\ pc[1] # "raised"
           /\ pc[1] # "created" => calls[1][1].name = "descendant"
           /\ Len(calls[1]) >= 2 => calls[1][2].name = "child"
           /\ pc[1] = "done" => /\ CallsTo(calls[1], "descendant") = 6
                               /\ CallsTo(calls[1], "child") = 12

PredicateDefersWitness ==
    /\ scen.kind = "wrapped" /\ AllDone
    /\ Len(calls[1]) = 2 /\ Len(delivered[1]) = 2 /\ cutlog[1] # <<>>
    /\ calls[1][1].subst # calls[1][2].subst

(***************************************************************************)
(* C27. With s the substitution left by a prefix, the solutions that the   *)
(* second alternative of amb(g1, g2) produces on s are exactly those g2    *)
(* produces on s when run on its own: they hold none of the layers that    *)
(* g1 pushed.  Every solution of the amb is s with layers pushed on top,   *)
(* s itself unchanged.                                                     *)
(***************************************************************************)
OfSecond(subst) == Tag(subst) = Num(2)

BindingsAbandoned ==
    (scen.kind = "abandon" /\ AllDone)
        => /\ Len(delivered[3]) = 1
           /\ SelectSeq(delivered[1], OfSecond) = delivered[2]
           /\ \A i \in 1..Len(delivered[1]) :
                 LET s == delivered[3][1]
                     s1 == delivered[1][i]
                 IN  /\ Len(s1) > Len(s)
                     /\ SubSeq(s1, Len(s1) - Len(s) + 1, Len(s1)) = s

\* the first alternative bound Y on top of X, the second delivers X alone
BindingsAbandonedWitness ==
    /\ scen.kind = "abandon" /\ AllDone
    /\ Len(delivered[1]) = 2
    /\ proxy(delivered[3][1], X) = Num(1)
    /\ proxy(delivered[1][1], Y) = Num(1) /\ Tag(delivered[1][1]) = Num(1)
    /\ proxy(delivered[1][2], Y) = Y /\ Tag(delivered[1][2]) = Num(2)
    /\ proxy(delivered[1][2], X) = Num(1)

(***************************************************************************)
(* What the engine has done for generator i                                *)
(***************************************************************************)
Done(i) == <<out[i], delivered[i], cutlog[i], calls[i]>>

(***************************************************************************)
(* C28. A generator that has not been asked for its first solution has run *)
(* nothing.  A step that yields a solution suspends the generator with the *)
(* rest of the search held in `result`, and no step taken while a          *)
(* generator is suspended or has been left by `break` delivers a solution, *)
(* runs a cut or calls a predicate: the search goes on only once the host  *)
(* asks, and never for a generator the host has left.                      *)
(***************************************************************************)
ResolveLazy ==
    /\ [](\A i \in 1..Len(pc) :
             pc[i] = "created"
                => result[i] = None /\ Done(i) = <<<<>>, <<>>, <<>>, <<>>>>)
    /\ [][\A i \in 1..Len(pc) :
             out'[i] # out[i]
                => /\ pc'[i] = "suspended"
                   /\ result'[i] = result[i]
                   /\ delivered'[i] = delivered[i]]_vars
    /\ [][\A i \in 1..Len(pc) :
             pc[i] \in {"suspended", "closed"} => Done(i)' = Done(i)]_vars
    /\ [][\A i \in 1..Len(pc) :
             pc[i] = "closed" => pc'[i] = "closed" /\ result'[i] = result[i]]_vars

\* the first loop was left after one solution with more to come, which the
\* second loop went on to find
ResolveLazyWitness ==
    /\ scen.kind = "lazy"
    /\ pc = <<"closed", "done">>
    /\ Len(out[1]) = 1 /\ Len(delivered[1]) = 1
    /\ Len(out[2]) = 3 /\ Len(delivered[2]) = 3
    /\ result[1].r = "solution" /\ result[1].next.k = "on_failure"

(***************************************************************************)
(* C29. Subst().smooth(t) = t for every term t built from atoms, unbound   *)
(* variables, lists and tuples: smooth over the empty substitution returns *)
(* a term with the same type, length and elements at every level.          *)
(* The host calls smooth directly here: resolve() never hands out the      *)
(* empty substitution.                                                     *)
(***************************************************************************)
MaxLen == 2

\* the lists and tuples of at most n elements of S
SequencesOver(S, n) ==
    {[tag |-> t, elems |-> e] :
        t \in {"list", "tuple"}, e \in UNION {[1..k -> S] : k \in 0..n}}

SmoothTerms ==
    LET Flat == SequencesOver(Terms, 1)
        Nested == SequencesOver(Terms \cup Flat, MaxLen)
    IN  Terms \cup Nested \cup {List(<<t>>) : t \in Nested}

\* the host program  t = ...; r = Subst().smooth(t)
SmoothInit ==
    /\ scen \in {[kind |-> "smooth", goals |-> <<>>, term |-> t] :
                    t \in SmoothTerms}
    /\ cur = 1
    /\ pc = <<"created">>
    /\ result = <<None>>
    /\ out = <<>>
    /\ delivered = <<>>
    /\ cutlog = <<>>
    /\ calls = <<>>

\* r = Subst().smooth(t)
Smooth ==
    /\ pc[cur] = "created"
    /\ pc' = [pc EXCEPT ![cur] = "done"]
    /\ result' = [result EXCEPT ![cur] =
                      [r |-> "value", value |-> smooth(Subst, scen.term)]]
    /\ UNCHANGED <<scen, cur, out, delivered, cutlog, calls>>

SmoothNext == Smooth

SmoothSpec == SmoothInit /\ [][SmoothNext]_vars

SmoothIdentity ==
    scen.kind = "smooth" /\ pc[1] = "done"
        => result[1] = [r |-> "value", value |-> scen.term]

\* a list that holds a tuple that holds a variable comes back unchanged
SmoothIdentityWitness ==
    /\ scen.kind = "smooth"
    /\ pc[1] = "done"
    /\ scen.term = List(<<Tuple(<<X>>), Y>>)
    /\ result[1].value = List(<<Tuple(<<X>>), Y>>)

(***************************************************************************)
(* C30. During resolve the number of nested native calls is bounded by the *)
(* nesting of the goals as the program writes them, whatever the number of *)
(* solutions, of backtracking steps and of calls of a recursive predicate: *)
(* every step and continuation hands a thunk back to the driver loop.      *)
(* Fails: applying the goal of a predicate calls the wrapped function and  *)
(* applies the goal it returns at once, so a function that returns its own *)
(* next call nests one native call for each call of the predicate.         *)
(***************************************************************************)
Larger(a, b) == IF a > b THEN a ELSE b

\* the native calls nested while goal(subst) runs
RECURSIVE ApplyDepth(_, _)
ApplyDepth(g, subst) ==
    CASE g.op = "then" -> 1 + ApplyDepth(g.goal1, subst)
      [] g.op = "unify" ->
            LET gs == UnifyGoals(g.pairs, subst, <<>>) IN
            IF gs.ok = "ok"
            THEN 1 + ApplyDepth(seq_from_iterable(gs.goals), subst)
            ELSE 2
      [] g.op = "pred" ->
            IF Builds(Body(g)) THEN 1 + ApplyDepth(Body(g), subst) ELSE 2
      [] OTHER -> 1

\* the thunk and the decorated function it calls
Frames == 2

\* the native calls nested by the next step of the driver loop of generator i
NativeDepth(i) ==
    IF pc[i] = "created"
    THEN IF Builds(scen.goals[i]) THEN ApplyDepth(scen.goals[i], Subst) ELSE 1
    ELSE IF pc[i] \in {"running", "suspended"} /\ result[i].r = "bounce"
    THEN LET thunk == result[i].next IN
         Frames +
         CASE thunk.fn = "step" /\ thunk.step.s = "choice" ->
                  ApplyDepth(thunk.step.goal1, thunk.step.subst)
           [] thunk.fn = "step" /\ thunk.step.s = "amb" ->
                  ApplyDepth(thunk.step.joined, thunk.step.subst)
           [] thunk.fn = "emit" /\ thunk.emit.k = "on_success" ->
                  ApplyDepth(thunk.emit.goal, thunk.subst)
           [] thunk.fn = "next" /\ thunk.next.k = "on_failure" ->
                  ApplyDepth(thunk.next.goal2, thunk.next.subst)
           [] OTHER -> 1
    ELSE 0

\* the length of the longest list or tuple written in a term
RECURSIVE Longest(_)
Longest(term) ==
    IF IsSequence(term)
    THEN LET RECURSIVE Over(_)
             Over(i) == IF i = 0 THEN Len(term.elems)
                        ELSE Larger(Longest(term.elems[i]), Over(i - 1))
         IN  Over(Len(term.elems))
    ELSE 0

\* the nesting of the combinators of a goal as it is written; unify runs a
\* conjunction of one goal for each pair, and for each element of a compound
RECURSIVE Nesting(_)
Nesting(g) ==
    CASE g.op \in {"then", "choice"} ->
            1 + Larger(Nesting(g.goal1), Nesting(g.goal2))
      [] g.op = "amb" -> 1 + Nesting(g.joined)
      [] g.op = "unify" -> 2 + Longest(Tuple(g.pairs))
      [] OTHER -> 1

\* the predicate calls written in a goal
RECURSIVE CallsIn(_)
CallsIn(g) ==
    CASE g.op \in {"then", "choice"} -> CallsIn(g.goal1) \cup CallsIn(g.goal2)
      [] g.op = "amb" -> CallsIn(g.joined)
      [] g.op = "pred" -> {g}
      [] OTHER -> {}

\* the predicate calls a goal can lead to
RECURSIVE Reach(_)
Reach(g) == CallsIn(g) \cup UNION {Reach(Body(p)) : p \in CallsIn(g)}

RECURSIVE Sum(_, _)
Sum(f, S) ==
    IF S = {} THEN 0 ELSE LET x == CHOOSE x \in S : TRUE IN f[x] + Sum(f, S \ {x})

\* the nesting of the goal and of the body of every function it can call,
\* each counted once however often it is called
StaticNesting(g) ==
    LET reach == Reach(g)
        names == {p.name : p \in reach}
        deepest == [name \in names |->
                       CHOOSE d \in {Nesting(Body(p)) : p \in reach} :
                           /\ \E p \in reach : p.name = name /\ Nesting(Body(p)) = d
                           /\ \A p \in reach : p.name = name => Nesting(Body(p)) <= d]
    IN  Nesting(g) + Sum([name \in names |-> 1 + deepest[name]], names)

StackSafe ==
    \A i \in 1..Len(scen.goals) :
        NativeDepth(i) <= Frames + StaticNesting(scen.goals[i])

\* all that exceeds the bound is a function that returns its own next call
StackSafeButDirect ==
    (\E i \in 1..Len(scen.goals) :
        NativeDepth(i) > Frames + StaticNesting(scen.goals[i]))
        => scen.kind = "stack" /\ scen.via = "direct"

(***************************************************************************)
(* C31. seq(g, cut) delivers at most one solution, the first solution of   *)
(* g, and backtracking after it continues at the escape continuation, not  *)
(* at the remaining alternatives of g nor at the failure continuation:     *)
(* between alternatives tagged 2 (failure) and 3 (escape) the solutions    *)
(* are tagged 1, 3 when what follows accepts and 3 when it asks for the    *)
(* next.  Without a solution of g, seq(g, cut) behaves as g.               *)
(* resolve(seq(amb(unify((X,1)), unify((X,2))), cut)) yields X = 1 only.   *)
(***************************************************************************)
Ones(i) == SelectSeq(delivered[i], LAMBDA s : Tag(s) = Num(1))
FirstOf(substs) == IF substs = <<>> THEN <<>> ELSE <<substs[1]>>

CutCommits ==
    (scen.kind = "commit" /\ AllDone)
        => /\ Ones(1) = FirstOf(Ones(3))
           /\ Ones(3) # <<>>
                 => /\ Tags(delivered[1]) = <<Num(1), Num(3)>>
                    /\ Tags(delivered[2]) = <<Num(3)>>
           /\ Ones(3) = <<>>
                 => /\ delivered[1] = delivered[3]
                    /\ delivered[2] = delivered[3]
           /\ delivered[4] = FirstOf(delivered[5])
           /\ scen.g = amb(<<Eq(X, Num(1)), Eq(X, Num(2))>>)
                 => Xs(out[4]) = <<Num(1)>>

\* of the two solutions of g only the first passes the cut
CutCommitsWitness ==
    /\ scen.kind = "commit" /\ AllDone
    /\ scen.g = amb(<<Eq(X, Num(1)), Eq(X, Num(2))>>)
    /\ Len(Ones(3)) = 2
    /\ Len(Ones(1)) = 1
    /\ Len(out[5]) = 2
    /\ Len(out[4]) = 1

(***************************************************************************)
(* C32. Running a primitive step hands exactly one continuation to the     *)
(* driver loop, once: the step of unit, and of a unification that          *)
(* succeeded, calls succeed with the step's substitution and the failure   *)
(* continuation as resumption; the step of cut calls succeed with the      *)
(* escape continuation as resumption; the step of fail, and of a           *)
(* unification that failed, calls the failure continuation.  None calls    *)
(* the escape continuation itself, and none delivers a solution itself.    *)
(***************************************************************************)
Emits(res, emit, subst, backtrack) ==
    /\ res.r = "bounce"
    /\ res.next = [fn |-> "emit", emit |-> emit, subst |-> subst,
                   backtrack |-> backtrack]
Backtracks(res, next) ==
    /\ res.r = "bounce"
    /\ res.next = [fn |-> "next", next |-> next]

StepProtocol ==
    [][/\ Stepping("unit")
            => Emits(result'[cur], Thunk.succeed, Thunk.step.subst, Thunk.backtrack)
       /\ Stepping("cut")
            => Emits(result'[cur], Thunk.succeed, Thunk.step.subst, Thunk.escape)
       /\ Stepping("fail") => Backtracks(result'[cur], Thunk.backtrack)
       /\ (Stepping("unit") \/ Stepping("cut") \/ Stepping("fail"))
            => /\ pc' = pc
               /\ delivered' = delivered
               /\ out' = out]_vars

\* a cut has run between three distinct continuations: what it binds goes
\* on to the rest of the conjunction, with the escape continuation (the
\* alternative tagged 3) as resumption, not the failure continuation (the
\* alternative tagged 2)
StepProtocolWitness ==
    /\ scen.kind = "commit"
    /\ cutlog[1] # <<>>
    /\ cur = 1 /\ Bouncing("emit")
    /\ Thunk.subst = cutlog[1][1]
    /\ Thunk.emit.k = "on_success"
    /\ Thunk.backtrack.k = "on_failure"
    /\ Thunk.backtrack.goal2 = Eq(T, Num(3))

(***************************************************************************)
(* C33. For a goal built from unit, fail, cut, then, seq, choice, amb and  *)
(* no, resolve(g) of yogic yields the substitutions that run(g, Subst())   *)
(* of yogic.backtracking yields, in the same order, and both end the same  *)
(* way.                                                                    *)
(* Fails: resolve leaves out every solution without a binding (C3), and    *)
(* seq and amb of yogic.backtracking raise for three goals or more, and so *)
(* does its no.                                                            *)
(***************************************************************************)
EnginesAgree ==
    (scen.kind = "engines" /\ Len(pc) = 2)
        => /\ pc[1] = pc[2]
           /\ out[1] = out[2]

\* where the goal can be built for both engines, what the trampoline
\* delivers to the driver is what the generators yield
EnginesAgreeBeforeYield ==
    (scen.kind = "engines" /\ Len(pc) = 2 /\ pc[2] = "done")
        => /\ pc[1] = "done"
           /\ delivered[1] = out[2]

(***************************************************************************)
(* C34. For a goal built from unit, fail, cut, seq, amb, no and unify over *)
(* atoms and variables, a host that keeps asking reaches the end of every  *)
(* resolve loop; the loop ends only when the terminal failure continuation *)
(* has run, and once it has run nothing runs after it.                     *)
(* Fails: unify of several pairs can bind two variables to each other      *)
(* (C1, C20), and the next deref of either never returns.                  *)
(***************************************************************************)
FiniteKinds ==
    {"unit", "empty seq", "empty amb", "cut", "nested cut", "not dog",
     "human", "empty", "cycle"}
Ended(i) == pc[i] \in {"running", "done"} /\ result[i] = None
FailureRuns(i) ==
    /\ pc[i] = "running"
    /\ result[i].r = "bounce"
    /\ result[i].next = [fn |-> "next", next |-> failure]

FiniteGoalEnds ==
    /\ scen.kind \in FiniteKinds => <>AllDone
    /\ [][\A i \in 1..Len(scen.goals) :
             /\ (Ended(i)' /\ ~Ended(i)) => FailureRuns(i)
             /\ Ended(i) => result'[i] = None]_vars

\* every goal of these kinds but the unifications of two pairs ends
FiniteGoalEndsButCycle ==
    scen.kind \in FiniteKinds \ {"cycle"} => <>AllDone

(***************************************************************************)
(* C35. Every substitution a goal delivers when it is applied to s ends    *)
(* with the layers of s, unchanged, below the layers it pushed, and every  *)
(* variable that s binds is bound to the same value in it: each solution   *)
(* of seq(pre, g) extends a solution of pre in this way.                   *)
(***************************************************************************)
IsSuffix(short, long) ==
    /\ Len(short) <= Len(long)
    /\ SubSeq(long, Len(long) - Len(short) + 1, Len(long)) = short

Extends(long, short) ==
    /\ IsSuffix(short, long)
    /\ \A v \in Named : Contains(short, v)
          => Contains(long, v) /\ GetItem(long, v) = GetItem(short, v)

SubstGrows ==
    scen.kind = "grow"
        => \A k \in 1..Len(delivered[2]) :
              \E j \in 1..Len(delivered[1]) :
                  Extends(delivered[2][k], delivered[1][j])

\* a solution with two layers above the layer that binds X to Y
SubstGrowsWitness ==
    /\ scen.kind = "grow"
    /\ pc[2] = "done"
    /\ delivered[1] = <<new_child(Subst, X, Y)>>
    /\ \E k \in 1..Len(delivered[2]) :
          /\ Len(delivered[2][k]) = Len(delivered[1][1]) + 2
          /\ Extends(delivered[2][k], delivered[1][1])

(***************************************************************************)
(* C36. A goal made by predicate is no choice point: the body of the       *)
(* wrapped function runs with the continuations of the caller.  In the     *)
(* same place, predicate(f)() and the goal f returns deliver the same      *)
(* solutions, and a cut of the body that no amb of the body encloses       *)
(* prunes the remaining alternative of the caller's amb (tagged 2) and     *)
(* leaves that of the amb around it (tagged 3).                            *)
(***************************************************************************)
\* goals that reach a cut of their own level
TopCut ==
    {cut_goal,
     seq(<<cut_goal, fail_goal>>),
     seq(<<Eq(X, Num(1)), cut_goal>>),
     seq(<<amb(<<Eq(X, Num(1)), Eq(X, Num(2))>>), cut_goal, fail_goal>>)}

PredicateNoBarrier ==
    (scen.kind = "barrier" /\ AllDone)
        => /\ delivered[1] = delivered[2]
           /\ cutlog[1] = cutlog[2]
           /\ Len(calls[1]) = 1
           /\ scen.g \in TopCut
                 => /\ cutlog[1] # <<>>
                    /\ delivered[1] # <<>>
                    /\ Tag(delivered[1][Len(delivered[1])]) = Num(3)
                    /\ \A k \in 1..Len(delivered[1]) :
                          Tag(delivered[1][k]) # Num(2)

\* the body binds X and cuts: its solution, then the alternative tagged 3
PredicateNoBarrierWitness ==
    /\ scen.kind = "barrier" /\ AllDone
    /\ scen.g = seq(<<Eq(X, Num(1)), cut_goal>>)
    /\ Len(calls[1]) = 1
    /\ Tags(delivered[1]) = <<Num(1), Num(3)>>
    /\ Xs(delivered[1]) = <<Num(1), X>>

(***************************************************************************)
(* C37. Two iterators of resolve(g) for the same goal value, advanced in   *)
(* any order of turns, each yield what a loop over resolve(g) on its own   *)
(* yields: at every moment what an iterator has yielded, and what has been *)
(* delivered to it, is the beginning of what the loop on its own got, and  *)
(* all of it once the iterator has ended; and advancing one iterator       *)
(* changes nothing of the other.                                           *)
(***************************************************************************)
Of(i) == <<pc[i], result[i], out[i], delivered[i], cutlog[i], calls[i]>>

====
